---- MODULE Spec2Model ----
(***************************************************************************)
(* Model of the transcript scoring engine (src/scoring_logic.py).          *)
(*                                                                         *)
(* Text is a TLA+ string; Len, SubSeq and \o act on it as on a sequence    *)
(* of characters.  A Python float is modelled by the exact rational it     *)
(* would hold without rounding: a record [n |-> numerator, d |->           *)
(* denominator] in lowest terms with d > 0.  Where the rounding of the     *)
(* float operations decides the outcome, score_transcript is computed in   *)
(* binary64 arithmetic as well (score_transcript_f64).                     *)
(***************************************************************************)
EXTENDS Integers, Sequences, FiniteSets, TLC

(***************************************************************************)
(* Exact rational arithmetic (the model of float).                         *)
(***************************************************************************)
Abs(x) == IF x < 0 THEN -x ELSE x

RECURSIVE Gcd(_, _)
Gcd(a, b) == IF b = 0 THEN a ELSE Gcd(b, a % b)

\* n/d in lowest terms, d > 0
Rat(n, d) ==
    LET s == IF d < 0 THEN -1 ELSE 1
        g == Gcd(Abs(n), Abs(d))
    IN  [n |-> (s * n) \div g, d |-> (s * d) \div g]

R(i) == [n |-> i, d |-> 1]

RAdd(a, b) ==
    LET g == Gcd(a.d, b.d)
    IN  Rat(a.n * (b.d \div g) + b.n * (a.d \div g), (a.d \div g) * b.d)

RNeg(a) == [n |-> -a.n, d |-> a.d]
RSub(a, b) == RAdd(a, RNeg(b))

RMul(a, b) ==
    LET g1 == Gcd(Abs(a.n), b.d)
        g2 == Gcd(Abs(b.n), a.d)
        h1 == IF g1 = 0 THEN 1 ELSE g1
        h2 == IF g2 = 0 THEN 1 ELSE g2
    IN  Rat((a.n \div h1) * (b.n \div h2), (a.d \div h2) * (b.d \div h1))

\* b must not be zero (Python raises ZeroDivisionError there)
RDiv(a, b) == RMul(a, Rat(b.d, b.n))

RLe(a, b) == a.n * b.d <= b.n * a.d
RLt(a, b) == a.n * b.d < b.n * a.d
RMax(a, b) == IF RLe(b, a) THEN a ELSE b     \* Python max(a, b)
RMin(a, b) == IF RLe(a, b) THEN a ELSE b     \* Python min(a, b)
Half == Rat(1, 2)

(***************************************************************************)
(* Characters and strings.                                                 *)
(***************************************************************************)
UpperLetters == "ABCDEFGHIJKLMNOPQRSTUVWXYZ"
LowerLetters == "abcdefghijklmnopqrstuvwxyz"
OtherWordChars == "0123456789_"

CharAt(s, i) == SubSeq(s, i, i)
Chars(s) == {CharAt(s, i) : i \in 1..Len(s)}
UpperChars == Chars(UpperLetters)
\* what \w matches
WordChars == UpperChars \cup Chars(LowerLetters) \cup Chars(OtherWordChars)
\* what \s matches and str.strip() removes
SpaceChars == {" ", "\n", "\t"}

LowerOf ==
    [c \in UpperChars |->
        CharAt(LowerLetters, CHOOSE k \in 1..Len(UpperLetters) : CharAt(UpperLetters, k) = c)]

\* str.lower() on one character
LowerChar(c) == IF c \in UpperChars THEN LowerOf[c] ELSE c

\* str.lower(), by halves
RECURSIVE Lower(_)
Lower(s) ==
    IF Len(s) = 0 THEN ""
    ELSE IF Len(s) = 1 THEN LowerChar(s)
    ELSE LET h == Len(s) \div 2
         IN  Lower(SubSeq(s, 1, h)) \o Lower(SubSeq(s, h + 1, Len(s)))

\* s[i:].startswith(p), i counted from 1
StartsAt(s, p, i) == i + Len(p) - 1 <= Len(s) /\ SubSeq(s, i, i + Len(p) - 1) = p

\* p in s
Contains(s, p) == \E i \in 1..(Len(s) + 1) : StartsAt(s, p, i)

SetMin(S) == CHOOSE x \in S : \A y \in S : x <= y

\* position (from 1) of the first occurrence of p in s at or after i, 0 if none
FirstFrom(s, p, i) ==
    LET at == {j \in i..(Len(s) + 1) : StartsAt(s, p, j)}
    IN  IF at = {} THEN 0 ELSE SetMin(at)

\* s.find(p): 0-based index of the first occurrence, -1 when there is none
Find(s, p) == FirstFrom(s, p, 1) - 1

\* s.count(p): number of non-overlapping occurrences, scanning from the left
\* (p is never empty here)
RECURSIVE CountFrom(_, _, _)
CountFrom(s, p, i) ==
    LET j == FirstFrom(s, p, i)
    IN  IF j = 0 THEN 0 ELSE 1 + CountFrom(s, p, j + Len(p))

Count(s, p) == CountFrom(s, p, 1)

\* not s.strip(): s is empty or whitespace only
IsBlank(s) == \A i \in 1..Len(s) : CharAt(s, i) \in SpaceChars

(***************************************************************************)
(* Text normalizer.                                                        *)
(***************************************************************************)
\* start of the next word at or after i, 0 when there is none
NextWordStart(s, i) ==
    LET at == {j \in i..Len(s) : CharAt(s, j) \in WordChars}
    IN  IF at = {} THEN 0 ELSE SetMin(at)

\* end (inclusive) of the maximal run of word characters that starts at i
RunEnd(s, i) ==
    LET stops == {j \in i..Len(s) : j = Len(s) \/ CharAt(s, j + 1) \notin WordChars}
    IN  SetMin(stops)

\* re.findall(r"\b\w+\b", s): the maximal runs of word characters, in order
RECURSIVE FindWords(_, _)
FindWords(s, i) ==
    LET b == NextWordStart(s, i)
    IN  IF b = 0 THEN <<>>
        ELSE LET e == RunEnd(s, b) IN <<SubSeq(s, b, e)>> \o FindWords(s, e + 1)

tokenize_words(text) == FindWords(Lower(text), 1)

word_count(text) == Len(tokenize_words(text))

(***************************************************************************)
(* Program state.                                                          *)
(*   ST_MODEL, LT_TOOL, VADER  the module globals holding the optional     *)
(*                       providers: [loaded |-> FALSE] models None, a      *)
(*                       loaded provider carries what it answers           *)
(*   transcript, npieces the text the caller has assembled so far          *)
(*   call, result        the last call made and what it returned           *)
(*   pc                  position of the program                           *)
(***************************************************************************)
VARIABLES pc, ST_MODEL, LT_TOOL, VADER, transcript, npieces, call, result

vars == <<pc, ST_MODEL, LT_TOOL, VADER, transcript, npieces, call, result>>

CRITERION_NAMES ==
    <<"Content & Structure", "Speech Rate", "Language & Grammar",
      "Vocabulary Richness", "Clarity", "Engagement">>

CRITERION_POINTS ==
    [k \in {CRITERION_NAMES[i] : i \in 1..Len(CRITERION_NAMES)} |->
        CASE k = "Content & Structure" -> R(40)
          [] k = "Speech Rate"         -> R(10)
          [] k = "Language & Grammar"  -> R(20)
          [] k = "Vocabulary Richness" -> R(10)
          [] k = "Clarity"             -> R(15)
          [] k = "Engagement"          -> R(15)]

(***************************************************************************)
(* Semantic similarity provider.                                           *)
(***************************************************************************)
REF_CONTENT    == "Salutation name age class school family hobbies flow closing"
REF_SPEECH     == "Speech rate pacing"
REF_GRAMMAR    == "Grammar correctness"
REF_VOCABULARY == "Vocabulary richness lexical diversity TTR"
REF_CLARITY    == "Clarity minimal fillers"
REF_ENGAGEMENT == "Engagement enthusiasm sentiment positivity"
RefStrings ==
    {REF_CONTENT, REF_SPEECH, REF_GRAMMAR, REF_VOCABULARY, REF_CLARITY, REF_ENGAGEMENT}

\* the encode/cos_sim calls are reached (and may raise)
SemanticInvoked(a, b) == ST_MODEL.loaded /\ ~IsBlank(a) /\ ~IsBlank(b)

\* faulty variant of semantic_similarity_score: without a model the similarity
\* counts as neutral, 50, not as 0
semantic_similarity_score_NeutralWithoutModel(a, b) ==
    IF ~SemanticInvoked(a, b) THEN R(50)
    ELSE LET sim   == ST_MODEL.cos_sim[b].value
             sim01 == RDiv(RAdd(sim, R(1)), R(2))
         IN  RMax(R(0), RMin(R(100), RMul(sim01, R(100))))

semantic_similarity_score(a, b) ==
    IF ~SemanticInvoked(a, b) THEN R(0)
    ELSE LET sim   == ST_MODEL.cos_sim[b].value
             sim01 == RDiv(RAdd(sim, R(1)), R(2))
         IN  RMax(R(0), RMin(R(100), RMul(sim01, R(100))))

(***************************************************************************)
(* Content & Structure helpers.                                            *)
(***************************************************************************)
SALUTATION_LEVELS == <<"excellent", "good", "normal">>

SALUTATION_PHRASES ==
    [level \in {"excellent", "good", "normal"} |->
        CASE level = "excellent" ->
                 <<"i am excited", "feeling great", "i am delighted", "i'm excited">>
          [] level = "good" ->
                 <<"good morning", "good afternoon", "good evening", "good day",
                   "hello everyone">>
          [] level = "normal" -> <<"hi", "hello">>]

SALUTATION_MAP ==
    [level \in {"no salulation", "normal", "good", "excellent"} |->
        CASE level = "no salulation" -> 0
          [] level = "normal"        -> 2
          [] level = "good"          -> 4
          [] level = "excellent"     -> 5]

AnyIn(phrases, t) == \E i \in 1..Len(phrases) : Contains(t, phrases[i])

\* " ".join(words)
RECURSIVE Join(_)
Join(words) ==
    IF words = <<>> THEN ""
    ELSE IF Len(words) = 1 THEN words[1]
    ELSE words[1] \o " " \o Join(Tail(words))

FirstN(s, n) == SubSeq(s, 1, IF Len(s) < n THEN Len(s) ELSE n)

\* faulty variant of detect_salutation: the phrase found first in the text wins
detect_salutation_EarliestPhrase(text) ==
    LET t == Lower(text)
        found == {<<i, k>> \in (1..Len(SALUTATION_LEVELS)) \X (1..5) :
                    /\ k <= Len(SALUTATION_PHRASES[SALUTATION_LEVELS[i]])
                    /\ Contains(t, SALUTATION_PHRASES[SALUTATION_LEVELS[i]][k])}
    IN  IF found = {}
        THEN [level |-> "no salulation", score |-> SALUTATION_MAP["no salulation"]]
        ELSE LET first == CHOOSE x \in found : \A y \in found :
                     Find(t, SALUTATION_PHRASES[SALUTATION_LEVELS[x[1]]][x[2]])
                         <= Find(t, SALUTATION_PHRASES[SALUTATION_LEVELS[y[1]]][y[2]])
             IN  [level |-> SALUTATION_LEVELS[first[1]],
                  score |-> SALUTATION_MAP[SALUTATION_LEVELS[first[1]]]]

detect_salutation(text) ==
    LET t == Lower(text)
        hits == {i \in 1..Len(SALUTATION_LEVELS) :
                    AnyIn(SALUTATION_PHRASES[SALUTATION_LEVELS[i]], t)}
        first_words == Join(FirstN(tokenize_words(text), 10))
    IN  IF hits # {}
        THEN LET level == SALUTATION_LEVELS[CHOOSE i \in hits : \A j \in hits : i <= j]
             IN  [level |-> level, score |-> SALUTATION_MAP[level]]
        ELSE IF AnyIn(SALUTATION_PHRASES["normal"], first_words)
        THEN [level |-> "normal", score |-> SALUTATION_MAP["normal"]]
        ELSE [level |-> "no salulation", score |-> SALUTATION_MAP["no salulation"]]

MUST_HAVE_KEYS ==
    {"name", "age", "school", "class", "family", "hobbies", "interest", "hobby"}
GOOD_TO_HAVE_KEYS ==
    {"fun", "fun fact", "ambition", "goal", "dream", "strength", "achievement",
     "origin", "from", "about family"}

SeqToSet(s) == {s[i] : i \in 1..Len(s)}

\* one key of count_must_good_keywords: substring match if it holds a space,
\* whole-word match otherwise
KeyMatches(k, t, words) == IF Contains(k, " ") THEN Contains(t, k) ELSE k \in words

count_must_good_keywords(text) ==
    LET t == Lower(text)
        words == SeqToSet(tokenize_words(t))
    IN  [must |-> Cardinality({k \in MUST_HAVE_KEYS : KeyMatches(k, t, words)}),
         good |-> Cardinality({k \in GOOD_TO_HAVE_KEYS : KeyMatches(k, t, words)})]

NAME_PATTERNS == <<"my name is", "myself", "i am", "i'm", "this is">>

detect_flow(text) ==
    LET t == Lower(text)
        order == SALUTATION_PHRASES["normal"] \o SALUTATION_PHRASES["good"]
                     \o SALUTATION_PHRASES["excellent"]
        found == {i \in 1..Len(order) : Find(t, order[i]) >= 0}
        sal_idx == IF found = {} THEN -1 ELSE Find(t, order[SetMin(found)])
        name_hits == {Find(t, NAME_PATTERNS[i]) : i \in 1..Len(NAME_PATTERNS)} \ {-1}
        name_idx == IF name_hits = {} THEN 999999 ELSE SetMin(name_hits)
    IN  IF sal_idx >= 0 /\ name_idx >= 0 /\ (name_idx - sal_idx) < 200 THEN TRUE
        ELSE IF AnyIn(NAME_PATTERNS, t) THEN TRUE
        ELSE FALSE

(***************************************************************************)
(* Speech rate.  duration_sec is [given |-> FALSE] for None, else          *)
(* [given |-> TRUE, value |-> seconds].                                    *)
(***************************************************************************)
NoDuration == [given |-> FALSE]
Seconds(r) == [given |-> TRUE, value |-> r]

\* "not duration_sec or duration_sec <= 0"
DurationUnusable(duration_sec) ==
    ~duration_sec.given \/ duration_sec.value = R(0) \/ RLe(duration_sec.value, R(0))

\* the duration speech_rate_score divides by: the one given, or the one
\* synthesized as max(1.0, words / 120.0 * 60.0)
EffectiveDuration(words, duration_sec) ==
    IF DurationUnusable(duration_sec)
    THEN RMax(R(1), RMul(RDiv(R(words), R(120)), R(60)))
    ELSE duration_sec.value

\* wpm = words / (duration_sec / 60.0)
WordsPerMinute(words, duration_sec) ==
    RDiv(R(words), RDiv(EffectiveDuration(words, duration_sec), R(60)))

\* the if-chain of speech_rate_score
SpeechRateBand(wpm) ==
    IF RLt(R(161), wpm) THEN R(2)
    ELSE IF RLe(R(141), wpm) /\ RLe(wpm, R(160)) THEN R(6)
    ELSE IF RLe(R(111), wpm) /\ RLe(wpm, R(140)) THEN R(10)
    ELSE IF RLe(R(81), wpm) /\ RLe(wpm, R(110)) THEN R(6)
    ELSE R(2)

speech_rate_score(words, duration_sec) ==
    SpeechRateBand(WordsPerMinute(words, duration_sec))

(***************************************************************************)
(* Grammar.                                                                *)
(***************************************************************************)
\* s[i..j] is a non-empty run of whitespace
AllSpace(s, i, j) == i <= j /\ \A k \in i..j : CharAt(s, k) \in SpaceChars

\* the words of s with their positions: <<start, end>> pairs, in order
RECURSIVE WordSpans(_, _)
WordSpans(s, i) ==
    LET b == NextWordStart(s, i)
    IN  IF b = 0 THEN <<>>
        ELSE <<b, RunEnd(s, b)>> \o WordSpans(s, RunEnd(s, b) + 1)

\* word k of `spans` (a flat sequence of starts and ends) and word k + 1 are
\* the same word with whitespace only between them
RepeatsAt(s, spans, k) ==
    /\ 2 * k + 2 <= Len(spans)
    /\ AllSpace(s, spans[2 * k] + 1, spans[2 * k + 1] - 1)
    /\ SubSeq(s, spans[2 * k - 1], spans[2 * k]) = SubSeq(s, spans[2 * k + 1], spans[2 * k + 2])

\* len(re.findall(r"\b(\w+)\s+\1\b", s)): from word k on, a word followed by
\* whitespace only and the same word again is one match, and the scan resumes
\* after the second word
RECURSIVE CountRepeats(_, _, _)
CountRepeats(s, spans, k) ==
    IF 2 * k > Len(spans) THEN 0
    ELSE IF RepeatsAt(s, spans, k) THEN 1 + CountRepeats(s, spans, k + 2)
    ELSE CountRepeats(s, spans, k + 1)

\* max(0, n)
AtLeastZero(n) == IF n > 0 THEN n ELSE 0

\* the fallback error count: repeated words plus commas beyond five
RepeatCount(t) == CountRepeats(t, WordSpans(t, 1), 1)

HeuristicErrors(text) == RepeatCount(Lower(text)) + AtLeastZero(Count(text, ",") - 5)

\* the error count grammar_score scales: the tool's matches, 0 when check()
\* raises, the heuristic when no tool is loaded
GrammarErrors(text) ==
    IF LT_TOOL.loaded
    THEN IF LT_TOOL.check.raises THEN 0 ELSE LT_TOOL.check.matches
    ELSE HeuristicErrors(text)

\* wc = max(1, word_count(text))
AtLeastOne(n) == IF n < 1 THEN 1 ELSE n

ErrorsPer100(text) ==
    RDiv(R(GrammarErrors(text)), RDiv(R(AtLeastOne(word_count(text))), R(100)))

\* the if-chain of grammar_score
GrammarBand(gram_score) ==
    IF RLt(Rat(9, 10), gram_score) THEN R(10)
    ELSE IF RLe(Rat(7, 10), gram_score) /\ RLe(gram_score, Rat(89, 100)) THEN R(8)
    ELSE IF RLe(Rat(5, 10), gram_score) /\ RLe(gram_score, Rat(69, 100)) THEN R(6)
    ELSE IF RLe(Rat(3, 10), gram_score) /\ RLe(gram_score, Rat(49, 100)) THEN R(4)
    ELSE R(2)

grammar_score(text) ==
    GrammarBand(RSub(R(1), RMin(RDiv(ErrorsPer100(text), R(10)), R(1))))

(***************************************************************************)
(* Vocabulary richness.                                                    *)
(***************************************************************************)
\* faulty variant of TtrBand: the band [0.3, 0.5) also takes what lies below
TtrBand_NoLowestBand(ttr) ==
    IF RLe(Rat(9, 10), ttr) /\ RLe(ttr, R(1)) THEN R(10)
    ELSE IF RLe(Rat(7, 10), ttr) /\ RLt(ttr, Rat(9, 10)) THEN R(8)
    ELSE IF RLe(Rat(5, 10), ttr) /\ RLt(ttr, Rat(7, 10)) THEN R(6)
    ELSE R(4)

\* the if-chain of ttr_score
TtrBand(ttr) ==
    IF RLe(Rat(9, 10), ttr) /\ RLe(ttr, R(1)) THEN R(10)
    ELSE IF RLe(Rat(7, 10), ttr) /\ RLt(ttr, Rat(9, 10)) THEN R(8)
    ELSE IF RLe(Rat(5, 10), ttr) /\ RLt(ttr, Rat(7, 10)) THEN R(6)
    ELSE IF RLe(Rat(3, 10), ttr) /\ RLt(ttr, Rat(5, 10)) THEN R(4)
    ELSE R(2)

\* ttr_score on the token list
TtrOfWords(words) ==
    IF Len(words) = 0 THEN R(0)
    ELSE TtrBand(RDiv(R(Cardinality(SeqToSet(words))), R(Len(words))))

ttr_score(text) == TtrOfWords(tokenize_words(text))

(***************************************************************************)
(* Clarity.                                                                *)
(***************************************************************************)
FILLER_WORDS ==
    {"um", "uh", "like", "you know", "so", "actually", "basically", "right",
     "i mean", "well", "kinda", "sort of", "okay", "hmm", "ah", "erm", "uhm"}

RECURSIVE SumCounts(_, _)
SumCounts(t, S) ==
    IF S = {} THEN 0
    ELSE LET fw == CHOOSE x \in S : TRUE
         IN  Count(t, fw) + SumCounts(t, S \ {fw})

\* the loop "for fw in FILLER_WORDS: count += t.count(fw)"
FillerCount(text) == SumCounts(Lower(text), FILLER_WORDS)

\* the if-chain of filler_rate_score
FillerBand(rate) ==
    IF RLe(rate, R(3)) THEN R(15)
    ELSE IF RLe(R(4), rate) /\ RLe(rate, R(6)) THEN R(12)
    ELSE IF RLe(R(7), rate) /\ RLe(rate, R(9)) THEN R(9)
    ELSE IF RLe(R(10), rate) /\ RLe(rate, R(12)) THEN R(6)
    ELSE R(3)

\* rate = (count / total) * 100.0
FillerRate(count, total) == RMul(RDiv(R(count), R(total)), R(100))

\* filler_rate_score once the tokens are counted
FillerOfTotal(text, total) ==
    IF total = 0 THEN R(0) ELSE FillerBand(FillerRate(FillerCount(text), total))

filler_rate_score(text) == FillerOfTotal(text, word_count(text))

(***************************************************************************)
(* Engagement.                                                             *)
(***************************************************************************)
POS_WORDS ==
    {"good", "great", "excited", "happy", "enjoy", "love", "like", "confident",
     "interesting", "fun"}

\* the fallback polarity: the share of positive words, doubled, at most 1
PositiveRatio(words) ==
    IF words = <<>> THEN R(0)
    ELSE RMin(R(1),
              RMul(RDiv(R(Cardinality({i \in 1..Len(words) : words[i] \in POS_WORDS})),
                        R(Len(words))),
                   R(2)))

\* the polarity p of engagement_score; with VADER the compound score (0.0 when
\* the key is missing) mapped to [0,1]
Polarity(text) ==
    IF VADER.loaded
    THEN RDiv(RAdd(VADER.polarity_scores.value, R(1)), R(2))
    ELSE PositiveRatio(tokenize_words(text))

\* the if-chain of engagement_score
EngagementBand(p) ==
    IF RLe(Rat(9, 10), p) THEN R(15)
    ELSE IF RLe(Rat(7, 10), p) /\ RLe(p, Rat(89, 100)) THEN R(12)
    ELSE IF RLe(Rat(5, 10), p) /\ RLe(p, Rat(69, 100)) THEN R(9)
    ELSE IF RLe(Rat(3, 10), p) /\ RLe(p, Rat(49, 100)) THEN R(6)
    ELSE R(3)

engagement_score(text) == EngagementBand(Polarity(text))

(***************************************************************************)
(* Criterion-level scorers.                                                *)
(***************************************************************************)
EmptyDict == <<>>

\* faulty variant of Fuse: the semantic score is not halved
Fuse_FullSemantic(rule_0_100, sem_0_100) == RAdd(RMul(Half, rule_0_100), sem_0_100)

\* combined = 0.5 * rule_0_100 + 0.5 * sem_0_100
Fuse(rule_0_100, sem_0_100) == RAdd(RMul(Half, rule_0_100), RMul(Half, sem_0_100))

\* rule_0_100 = (points / scale) * 100.0
RuleScore(points, scale) == RMul(RDiv(points, scale), R(100))

\* the dictionary every criterion scorer returns
CriterionResult(criterion, raw_points, rule_0_100, sem_0_100, details, max_points) ==
    [criterion |-> criterion, raw_points |-> raw_points,
     rule_score |-> rule_0_100, semantic_score |-> sem_0_100,
     combined_score |-> Fuse(rule_0_100, sem_0_100),
     details |-> details, max_points |-> max_points]

\* faulty variant of AtMostFive: no cap
AtMostFive_NoCap(n) == n

\* min(5, n)
AtMostFive(n) == IF n < 5 THEN n ELSE 5

\* raw = sal_pts + must_pts + good_pts + flow_pts, clamped to [0, 40]
ContentRaw(sal, kw, flow) ==
    RMax(R(0), RMin(R(40),
        R(sal.score + AtMostFive(kw.must) * 4 + AtMostFive(kw.good) * 2
            + (IF flow THEN 5 ELSE 0))))

\* a scorer's result from its points: rule_0_100 = (points / scale) * 100.0
PointsResult(criterion, points, scale, sem_0_100, details, max_points) ==
    CriterionResult(criterion, points, RuleScore(points, scale), sem_0_100,
                    details, max_points)

ContentResult(sal, kw, flow, sem_0_100) ==
    PointsResult("Content & Structure", ContentRaw(sal, kw, flow), R(40), sem_0_100,
                 [salutation |-> sal, must |-> kw.must, good |-> kw.good],
                 CRITERION_POINTS["Content & Structure"])

score_content_structure(text) ==
    ContentResult(detect_salutation(text), count_must_good_keywords(text),
                  detect_flow(text), semantic_similarity_score(text, REF_CONTENT))

SpeechResult(words, duration_sec, sem_0_100) ==
    PointsResult("Speech Rate", speech_rate_score(words, duration_sec),
                 CRITERION_POINTS["Speech Rate"], sem_0_100,
                 [words |-> words, duration_sec |-> duration_sec],
                 CRITERION_POINTS["Speech Rate"])

score_speech_rate(text, duration_sec) ==
    SpeechResult(word_count(text), duration_sec,
                 semantic_similarity_score(text, REF_SPEECH))

score_language_grammar(text) ==
    PointsResult("Language & Grammar", grammar_score(text), R(10),
                 semantic_similarity_score(text, REF_GRAMMAR), EmptyDict, R(10))

score_vocabulary(text) ==
    PointsResult("Vocabulary Richness", ttr_score(text), R(10),
                 semantic_similarity_score(text, REF_VOCABULARY), EmptyDict,
                 CRITERION_POINTS["Vocabulary Richness"])

score_clarity(text) ==
    PointsResult("Clarity", filler_rate_score(text), CRITERION_POINTS["Clarity"],
                 semantic_similarity_score(text, REF_CLARITY), EmptyDict,
                 CRITERION_POINTS["Clarity"])

score_engagement(text) ==
    PointsResult("Engagement", engagement_score(text), CRITERION_POINTS["Engagement"],
                 semantic_similarity_score(text, REF_ENGAGEMENT), EmptyDict,
                 CRITERION_POINTS["Engagement"])

(***************************************************************************)
(* Aggregator.  rubric is [given |-> FALSE] for None, else                 *)
(* [given |-> TRUE, entries |-> <<[criterion, weight], ...>>].             *)
(***************************************************************************)
NoRubric == [given |-> FALSE]
Rubric(entries) == [given |-> TRUE, entries |-> entries]

\* "if rubric:" -- neither None nor an empty list
RubricTruthy(rubric) == rubric.given /\ rubric.entries # <<>>

RECURSIVE RSum(_)
RSum(xs) == IF xs = <<>> THEN R(0) ELSE RAdd(xs[1], RSum(Tail(xs)))

\* faulty variant of RubricWeightMap: the keys are not lower-cased
RubricWeightMap_CaseSensitive(entries) ==
    [k \in {entries[i].criterion : i \in 1..Len(entries)} |->
        entries[CHOOSE i \in 1..Len(entries) :
                    /\ entries[i].criterion = k
                    /\ \A j \in (i + 1)..Len(entries) : entries[j].criterion # k
               ].weight]

\* {r["criterion"].lower(): float(r["weight"]) for r in rubric}: a later entry
\* replaces an earlier one with the same key
RubricWeightMap(entries) ==
    [k \in {Lower(entries[i].criterion) : i \in 1..Len(entries)} |->
        entries[CHOOSE i \in 1..Len(entries) :
                    /\ Lower(entries[i].criterion) = k
                    /\ \A j \in (i + 1)..Len(entries) : Lower(entries[j].criterion) # k
               ].weight]

\* total = sum(CRITERION_POINTS.values())
TotalPoints ==
    RSum([i \in 1..Len(CRITERION_NAMES) |-> CRITERION_POINTS[CRITERION_NAMES[i]]])

\* faulty variant of DefaultWeightMap: the points are taken as percentages
DefaultWeightMap_PerCent ==
    [k \in {Lower(CRITERION_NAMES[i]) : i \in 1..Len(CRITERION_NAMES)} |->
        RDiv(CRITERION_POINTS[CHOOSE c \in DOMAIN CRITERION_POINTS : Lower(c) = k],
             R(100))]

\* {k.lower(): CRITERION_POINTS[k] / total for k in CRITERION_POINTS}
DefaultWeightMap ==
    [k \in {Lower(CRITERION_NAMES[i]) : i \in 1..Len(CRITERION_NAMES)} |->
        RDiv(CRITERION_POINTS[CHOOSE c \in DOMAIN CRITERION_POINTS : Lower(c) = k],
             TotalPoints)]

WeightMap(rubric) ==
    IF RubricTruthy(rubric) THEN RubricWeightMap(rubric.entries) ELSE DefaultWeightMap

\* weight_map.get(key, 0.0)
DictGet(weight_map, key) ==
    IF key \in DOMAIN weight_map THEN weight_map[key] ELSE R(0)

\* weight = weight_map.get(key_name.lower(), 0.0)
WeightGet(weight_map, key_name) == DictGet(weight_map, Lower(key_name))

\* weighted_contribution = (combined_score / 100.0) * (weight * 100.0)
WeightedContribution(combined_score, weight) ==
    RMul(RDiv(combined_score, R(100)), RMul(weight, R(100)))

\* the entry add_item appends for an item and its resolved weight
PerCriterionEntry(item, weight) ==
    [criterion |-> item.criterion,
     weight |-> weight,
     rule_score |-> item.rule_score,
     semantic_score |-> item.semantic_score,
     combined_score |-> item.combined_score,
     weighted_contribution |-> WeightedContribution(item.combined_score, weight),
     raw_points |-> item.raw_points,
     details |-> item.details]

add_item(weight_map, item, key_name) ==
    PerCriterionEntry(item, WeightGet(weight_map, key_name))

\* 0.5 * a + 0.5 * b
Average(a, b) == RAdd(RMul(Half, a), RMul(Half, b))

\* faulty variant of MergeLanguageVocabulary: the grammar scores alone
MergeLanguageVocabulary_GrammarOnly(weight_map, lg, vr) ==
    [criterion |-> "Language & Grammar",
     weight |-> DictGet(weight_map, "language & grammar"),
     rule_score |-> lg.rule_score,
     semantic_score |-> lg.semantic_score,
     combined_score |-> lg.combined_score,
     raw_points |-> RAdd(lg.raw_points, vr.raw_points),
     details |-> [grammar |-> lg.details, vocabulary |-> vr.details]]

\* the merged display item built from the grammar and vocabulary results
MergeLanguageVocabulary(weight_map, lg, vr) ==
    [criterion |-> "Language & Grammar",
     weight |-> DictGet(weight_map, "language & grammar"),
     rule_score |-> Average(lg.rule_score, vr.rule_score),
     semantic_score |-> Average(lg.semantic_score, vr.semantic_score),
     combined_score |-> Average(lg.combined_score, vr.combined_score),
     raw_points |-> RAdd(lg.raw_points, vr.raw_points),
     details |-> [grammar |-> lg.details, vocabulary |-> vr.details]]

\* faulty variant of ClampOverall: the lower bound is forgotten
ClampOverall_NoLowerBound(overall) == RMin(R(100), overall)

\* overall = max(0.0, min(100.0, overall))
ClampOverall(overall) == RMax(R(0), RMin(R(100), overall))

\* sum(p["weighted_contribution"] for p in per_list)
SumContributions(per_list) ==
    RSum([i \in 1..Len(per_list) |-> per_list[i].weighted_contribution])

\* the six add_item calls, in order
PerList(weight_map, cs, sr, lg, vr, cl, en) ==
    << add_item(weight_map, cs, "content & structure"),
       add_item(weight_map, sr, "speech rate"),
       add_item(weight_map, MergeLanguageVocabulary(weight_map, lg, vr),
                "language & grammar"),
       add_item(weight_map, vr, "vocabulary richness"),
       add_item(weight_map, cl, "clarity"),
       add_item(weight_map, en, "engagement") >>

\* the dictionary score_transcript returns
Report(per_list, words) ==
    [status |-> "ok",
     overall_score |-> ClampOverall(SumContributions(per_list)),
     per_criterion |-> per_list,
     words |-> words]

\* an unguarded provider call raises inside score_transcript: one of the six
\* encode/cos_sim calls, or VADER's polarity_scores
ProviderRaises(text) ==
    \/ \E b \in RefStrings : SemanticInvoked(text, b) /\ ST_MODEL.cos_sim[b].raises
    \/ VADER.loaded /\ VADER.polarity_scores.raises

score_transcript(text, rubric, duration_sec) ==
    IF ProviderRaises(text) THEN [status |-> "raised"]
    ELSE Report(PerList(WeightMap(rubric),
                        score_content_structure(text),
                        score_speech_rate(text, duration_sec),
                        score_language_grammar(text),
                        score_vocabulary(text),
                        score_clarity(text),
                        score_engagement(text)),
                word_count(text))

(***************************************************************************)
(* IEEE 754 binary64 arithmetic on non-negative values, as Python floats   *)
(* compute: every operation rounds to nearest, ties to even.  A natural    *)
(* number is a sequence of limbs to the base 2^15, least significant       *)
(* first, without leading zero limb; a float is [m |-> mantissa of 53      *)
(* bits, e |-> exponent] with value m * 2^e, zero having the empty         *)
(* mantissa.                                                               *)
(***************************************************************************)
LimbBits == 15
LimbBase == 32768

Pow2(k) == 2 ^ k

Limb(a, i) == IF i <= Len(a) THEN a[i] ELSE 0

RECURSIVE BNorm(_)
BNorm(a) ==
    IF a = <<>> THEN a
    ELSE IF a[Len(a)] = 0 THEN BNorm(SubSeq(a, 1, Len(a) - 1))
    ELSE a

BFromInt(n) == BNorm(<<n % LimbBase, (n \div LimbBase) % LimbBase, n \div (LimbBase * LimbBase)>>)

RECURSIVE BAddFrom(_, _, _, _)
BAddStep(a, b, i, s) == <<s % LimbBase>> \o BAddFrom(a, b, i + 1, s \div LimbBase)
BAddFrom(a, b, i, carry) ==
    IF i > Len(a) /\ i > Len(b)
    THEN IF carry = 0 THEN <<>> ELSE <<carry>>
    ELSE BAddStep(a, b, i, Limb(a, i) + Limb(b, i) + carry)

BAdd(a, b) == BAddFrom(a, b, 1, 0)

\* a - b for a >= b
RECURSIVE BSubFrom(_, _, _, _)
BSubStep(a, b, i, d) ==
    IF d < 0 THEN <<d + LimbBase>> \o BSubFrom(a, b, i + 1, 1)
    ELSE <<d>> \o BSubFrom(a, b, i + 1, 0)
BSubFrom(a, b, i, borrow) ==
    IF i > Len(a) THEN <<>>
    ELSE BSubStep(a, b, i, Limb(a, i) - Limb(b, i) - borrow)

BSub(a, b) == BNorm(BSubFrom(a, b, 1, 0))

BLt(a, b) ==
    \/ Len(a) < Len(b)
    \/ /\ Len(a) = Len(b)
       /\ \E i \in 1..Len(a) :
            a[i] < b[i] /\ \A j \in (i + 1)..Len(a) : a[j] = b[j]

BLe(a, b) == a = b \/ BLt(a, b)

\* a * k for a single limb k
RECURSIVE BMulSmallFrom(_, _, _, _)
BMulSmallStep(a, k, i, p) == <<p % LimbBase>> \o BMulSmallFrom(a, k, i + 1, p \div LimbBase)
BMulSmallFrom(a, k, i, carry) ==
    IF i > Len(a)
    THEN IF carry = 0 THEN <<>> ELSE <<carry>>
    ELSE BMulSmallStep(a, k, i, a[i] * k + carry)

BMulSmall(a, k) == BNorm(BMulSmallFrom(a, k, 1, 0))

RECURSIVE BMulFrom(_, _, _)
BMulFrom(a, b, i) ==
    IF i > Len(b) THEN <<>>
    ELSE BAdd(BMulSmall(a, b[i]), <<0>> \o BMulFrom(a, b, i + 1))

BMul(a, b) == BNorm(BMulFrom(a, b, 1))

BOdd(a) == a # <<>> /\ a[1] % 2 = 1

\* a * 2^k
BShl(a, k) ==
    IF a = <<>> THEN a
    ELSE [i \in 1..(k \div LimbBits) |-> 0] \o BMulSmall(a, Pow2(k % LimbBits))

\* floor(a / 2^r) for r below the limb width
BShrBits(a, r) ==
    BNorm([i \in 1..Len(a) |->
        (a[i] \div Pow2(r)) + (Limb(a, i + 1) % Pow2(r)) * Pow2(LimbBits - r)])

\* floor(a / 2^k)
BShr(a, k) ==
    IF k \div LimbBits >= Len(a) THEN <<>>
    ELSE BShrBits(SubSeq(a, k \div LimbBits + 1, Len(a)), k % LimbBits)

SmallBitLen(n) == CHOOSE k \in 1..LimbBits : Pow2(k - 1) <= n /\ n < Pow2(k)

BitLen(a) == IF a = <<>> THEN 0 ELSE LimbBits * (Len(a) - 1) + SmallBitLen(a[Len(a)])

Zero64 == [m |-> <<>>, e |-> 0]

\* the mantissa after rounding up may have 54 bits
Renormalize(q, e) ==
    IF BitLen(q) > 53 THEN [m |-> BShr(q, 1), e |-> e + 1] ELSE [m |-> q, e |-> e]

\* round to nearest, ties to even: q the kept bits, rem the k dropped ones
RoundKept(q, e, rem, half, sticky) ==
    IF BLt(half, rem) \/ (rem = half /\ (sticky \/ BOdd(q)))
    THEN Renormalize(BAdd(q, <<1>>), e)
    ELSE [m |-> q, e |-> e]

RoundDropping(big, e, sticky, k, q) ==
    RoundKept(q, e + k, BSub(big, BShl(q, k)), BShl(<<1>>, k - 1), sticky)

\* the float nearest to big * 2^e; sticky says that big was cut off below
RoundBits(big, e, sticky, len) ==
    IF len <= 53 THEN [m |-> BShl(big, 53 - len), e |-> e - (53 - len)]
    ELSE RoundDropping(big, e, sticky, len - 53, BShr(big, len - 53))

Round64(big, e, sticky) ==
    IF big = <<>> THEN Zero64 ELSE RoundBits(big, e, sticky, BitLen(big))

F64(n) == Round64(BFromInt(n), 0, FALSE)

F64Mul(x, y) ==
    IF x.m = <<>> \/ y.m = <<>> THEN Zero64
    ELSE Round64(BMul(x.m, y.m), x.e + y.e, FALSE)

F64Add(x, y) ==
    IF x.m = <<>> THEN y
    ELSE IF y.m = <<>> THEN x
    ELSE IF x.e >= y.e THEN Round64(BAdd(BShl(x.m, x.e - y.e), y.m), y.e, FALSE)
    ELSE Round64(BAdd(BShl(y.m, y.e - x.e), x.m), x.e, FALSE)

\* one more quotient bit by restoring division: r2 and q2 are the remainder
\* and the quotient so far, doubled
DivPick(r2, d, q2) ==
    IF BLe(d, r2) THEN [q |-> BAdd(q2, <<1>>), r |-> BSub(r2, d)]
    ELSE [q |-> q2, r |-> r2]

DivOne(st, d) == DivPick(BAdd(st.r, st.r), d, BAdd(st.q, st.q))

\* n more quotient bits, the first half of them before the second
RECURSIVE DivBits(_, _, _)
DivRest(st, d, n) == IF st.q = <<>> \/ n > 0 THEN DivBits(st, d, n) ELSE st
DivBits(st, d, n) ==
    IF n = 0 THEN st
    ELSE IF n = 1 THEN DivOne(st, d)
    ELSE DivRest(DivBits(st, d, n \div 2), d, n - n \div 2)

DivRounded(qr, e) == Round64(qr.q, e, qr.r # <<>>)

\* x / y for y > 0: the quotient of the mantissas to 56 binary places, rounded
F64Div(x, y) ==
    IF x.m = <<>> THEN Zero64
    ELSE DivRounded(DivBits(DivPick(x.m, y.m, <<>>), y.m, 56), x.e - y.e - 56)

F64Le(x, y) ==
    IF x.m = <<>> THEN TRUE
    ELSE IF y.m = <<>> THEN FALSE
    ELSE x.e < y.e \/ (x.e = y.e /\ BLe(x.m, y.m))

F64Max(x, y) == IF F64Le(x, y) THEN y ELSE x
F64Min(x, y) == IF F64Le(x, y) THEN x ELSE y

(***************************************************************************)
(* score_transcript in binary64 arithmetic, without rubric.  The scorers'  *)
(* raw points are whole numbers of points and are taken from the scorers   *)
(* above; rule, combined and weighted scores, the weights and their sum     *)
(* are computed operation by operation as Python computes them.            *)
(***************************************************************************)
\* a non-negative rational as the nearest float
RatToF64(r) == F64Div(F64(r.n), F64(r.d))

Half64 == RatToF64(Half)
Hundred64 == F64(100)

\* rule_0_100 = (points / scale) * 100.0
RuleScoreF64(points, scale) ==
    F64Mul(F64Div(RatToF64(points), RatToF64(scale)), Hundred64)

\* combined = 0.5 * rule_0_100 + 0.5 * sem_0_100
FuseF64(rule_0_100, sem_0_100) ==
    F64Add(F64Mul(Half64, rule_0_100), F64Mul(Half64, sem_0_100))

ItemOfScores(res, rule_0_100, sem_0_100) ==
    [criterion |-> res.criterion,
     raw_points |-> RatToF64(res.raw_points),
     rule_score |-> rule_0_100,
     semantic_score |-> sem_0_100,
     combined_score |-> FuseF64(rule_0_100, sem_0_100)]

\* a criterion scorer's dictionary from its points and semantic score
ItemF64(res, scale) ==
    ItemOfScores(res, RuleScoreF64(res.raw_points, scale), RatToF64(res.semantic_score))

\* total = sum(CRITERION_POINTS.values())
RECURSIVE SumF64(_, _)
SumF64(xs, i) == IF i = 0 THEN Zero64 ELSE F64Add(SumF64(xs, i - 1), xs[i])

TotalPointsF64 ==
    SumF64([i \in 1..Len(CRITERION_NAMES) |-> RatToF64(CRITERION_POINTS[CRITERION_NAMES[i]])],
           Len(CRITERION_NAMES))

\* {k.lower(): CRITERION_POINTS[k] / total for k in CRITERION_POINTS}
DefaultWeightMapF64 ==
    [k \in {Lower(CRITERION_NAMES[i]) : i \in 1..Len(CRITERION_NAMES)} |->
        F64Div(RatToF64(CRITERION_POINTS[CHOOSE c \in DOMAIN CRITERION_POINTS : Lower(c) = k]),
               TotalPointsF64)]

\* weight * 100.0 for the weights of the built-in table
DefaultWeightPerCentF64 ==
    [k \in DOMAIN DefaultWeightMapF64 |-> F64Mul(DefaultWeightMapF64[k], Hundred64)]

\* add_item with the built-in weights:
\* weighted_contribution = (item["combined_score"] / 100.0) * (weight * 100.0)
AddItemF64(item, key_name) ==
    [criterion |-> item.criterion,
     weight |-> DefaultWeightMapF64[Lower(key_name)],
     rule_score |-> item.rule_score,
     semantic_score |-> item.semantic_score,
     combined_score |-> item.combined_score,
     weighted_contribution |->
        F64Mul(F64Div(item.combined_score, Hundred64),
               DefaultWeightPerCentF64[Lower(key_name)]),
     raw_points |-> item.raw_points]

\* 0.5 * a + 0.5 * b
AverageF64(a, b) == F64Add(F64Mul(Half64, a), F64Mul(Half64, b))

\* the merged display item
MergeF64(lg, vr) ==
    [criterion |-> "Language & Grammar",
     rule_score |-> AverageF64(lg.rule_score, vr.rule_score),
     semantic_score |-> AverageF64(lg.semantic_score, vr.semantic_score),
     combined_score |-> AverageF64(lg.combined_score, vr.combined_score),
     raw_points |-> F64Add(lg.raw_points, vr.raw_points)]

PerListF64(cs, sr, lg, vr, cl, en) ==
    << AddItemF64(cs, "content & structure"),
       AddItemF64(sr, "speech rate"),
       AddItemF64(MergeF64(lg, vr), "language & grammar"),
       AddItemF64(vr, "vocabulary richness"),
       AddItemF64(cl, "clarity"),
       AddItemF64(en, "engagement") >>

\* sum(p["weighted_contribution"] for p in per_list), added left to right
SumContributionsF64(per_list) ==
    SumF64([i \in 1..Len(per_list) |-> per_list[i].weighted_contribution], Len(per_list))

\* max(0.0, min(100.0, overall))
ClampOverallF64(overall) == F64Max(Zero64, F64Min(Hundred64, overall))

ReportF64(per_list, words) ==
    [status |-> "ok",
     overall_score |-> ClampOverallF64(SumContributionsF64(per_list)),
     per_criterion |-> per_list,
     words |-> words]

\* score_transcript(text, None, duration_sec)
score_transcript_f64(text, duration_sec) ==
    ReportF64(
        PerListF64(ItemF64(score_content_structure(text), R(40)),
                   ItemF64(score_speech_rate(text, duration_sec), CRITERION_POINTS["Speech Rate"]),
                   ItemF64(score_language_grammar(text), R(10)),
                   ItemF64(score_vocabulary(text), R(10)),
                   ItemF64(score_clarity(text), CRITERION_POINTS["Clarity"]),
                   ItemF64(score_engagement(text), CRITERION_POINTS["Engagement"])),
        word_count(text))

(***************************************************************************)
(* Bounds and input domains.                                               *)
(***************************************************************************)
MaxPieces == 1      \* pieces of text the caller joins into one transcript
MaxUnitPieces == 2  \* the same, for the calls of single scorers
MaxWords == 230     \* largest word count handed to speech_rate_score directly
MaxFloatPieces == 2 \* pieces of a transcript scored in binary64 arithmetic

\* what a caller may paste or upload, piece by piece
Pieces ==
    {"Good morning, my name is Alex. ",
     "Hi, I am excited to be here! ",
     "um so like you know ",
     "I love my school and my family, my hobby is cricket. ",
     "the the cat ",
     "...",
     "  \n"}

\* shorter pieces for the calls of single scorers
UnitPieces ==
    {"Good morning, ", "my name is Alex. ", "Hi ", "I am excited ", "um ",
     "a a a a a ", "b c d e f ", "g h i j k ", "...", " ",
     "we all live in Pune and every day my two dear friends walk with me to the big green park near our old house to play cricket "}

\* self-introductions handed to score_content_structure directly: no keyword,
\* some, more than five of each kind, plurals that are no whole-word match
ContentTexts ==
    {"",
     "Good morning, my name is Alex. ",
     "I love my school and my family, my hobby is cricket. ",
     "My name, age, school, class, family, hobbies, interest and hobby. ",
     "fun ambition goal dream strength achievement from origin ",
     "names ages schools classes families ",
     "Hello everyone, this is about family and a fun fact. ",
     "Hi, I am excited! My name is Alex, age ten, my school, class, family, hobbies, interest, hobby; a fun fact, my ambition, goal, dream, strength, achievement, I am from Pune. "}

\* texts handed to grammar_score directly: 27 words without a repeated word, 33
\* words with one and with two repeated words, 3 words with one
GrammarTexts ==
    {"we all live in Pune and every day my two dear friends walk with me to the big green park near our old house to play cricket ",
     "we all live in Pune and every day my two dear friends walk with me to the big green park near our old house to play cricket it is so so good today ",
     "we all live in Pune and every day my two dear friends walk with me to the big green park near our old house to play cricket it is is so so today ",
     "the the cat "}

\* pieces of the transcripts scored in binary64 arithmetic; the first one earns
\* the full points of every criterion
FloatPieces ==
    {"I am excited name age school class family fun ambition goal dream strength good great happy enjoy love confident interesting ",
     "Good morning, my name is Alex. ",
     "I love my school and my family, my hobby is cricket. ",
     "um so like you know ",
     "the the cat "}
FloatDurations == {NoDuration, Seconds(R(10)), Seconds(R(30))}

Durations == {NoDuration, Seconds(R(0)), Seconds(R(-5)), Seconds(R(30))}
UnitDurations == {NoDuration, Seconds(R(0)), Seconds(R(-5)), Seconds(R(60)),
                  Seconds(R(100)), Seconds(R(120))}

\* rubric tables a caller may pass: none, an empty one, the loader's generic
\* fallback table, and a hand-made one (mixed case, a negative weight, weights
\* summing above 1, a criterion the engine does not know, a name given twice)
LoaderFallbackRubric ==
    Rubric(<< [criterion |-> "Content & Structure", weight |-> Rat(36, 100)],
              [criterion |-> "Speech Rate",         weight |-> Rat(9, 100)],
              [criterion |-> "Language & Grammar",  weight |-> Rat(18, 100)],
              [criterion |-> "Vocabulary Richness", weight |-> Rat(9, 100)],
              [criterion |-> "Clarity",             weight |-> Rat(14, 100)],
              [criterion |-> "Engagement",          weight |-> Rat(14, 100)] >>)
HandMadeRubric ==
    Rubric(<< [criterion |-> "CONTENT & STRUCTURE", weight |-> Rat(3, 2)],
              [criterion |-> "speech rate",         weight |-> Rat(-1, 2)],
              [criterion |-> "Confidence",          weight |-> R(1)],
              [criterion |-> "Clarity",             weight |-> R(0)],
              [criterion |-> "clarity",             weight |-> Rat(4, 5)] >>)
PartialRubric ==
    Rubric(<< [criterion |-> "Engagement", weight |-> R(2)],
              [criterion |-> "Pronunciation", weight |-> R(1)] >>)
Rubrics == {NoRubric, Rubric(<<>>), LoaderFallbackRubric, HandMadeRubric, PartialRubric}

\* what a provider call answers: a value, or an exception
Answer(v) == [raises |-> FALSE, value |-> v]
Raise == [raises |-> TRUE, value |-> R(0)]

None == [loaded |-> FALSE]

\* loaded sentence-transformer models: the cosine similarity per reference
\* text (float32 arithmetic may leave [-1,1] slightly), or an exception
SemModels ==
    { [loaded |-> TRUE,
       cos_sim |-> [b \in RefStrings |->
           CASE b = REF_CONTENT    -> Answer(Rat(1, 2))
             [] b = REF_SPEECH     -> Answer(R(-1))
             [] b = REF_GRAMMAR    -> Answer(R(0))
             [] b = REF_VOCABULARY -> Answer(Rat(101, 100))
             [] b = REF_CLARITY    -> Answer(Rat(-101, 100))
             [] b = REF_ENGAGEMENT -> Answer(Rat(3, 5))]],
      [loaded |-> TRUE,
       cos_sim |-> [b \in RefStrings |->
           IF b = REF_CLARITY THEN Raise ELSE Answer(R(0))]] }

\* loaded grammar tools: the number of matches check() reports, or an exception
GrammarTools ==
    { [loaded |-> TRUE, check |-> [raises |-> FALSE, matches |-> 1]],
      [loaded |-> TRUE, check |-> [raises |-> TRUE, matches |-> 0]] }

\* loaded sentiment analyzers: the compound score, or an exception
SentimentAnalyzers ==
    { [loaded |-> TRUE, polarity_scores |-> Answer(Rat(4, 5))],
      [loaded |-> TRUE, polarity_scores |-> Raise] }

(***************************************************************************)
(* The state machine.                                                      *)
(***************************************************************************)
NoCall == [fn |-> "none"]
NoResult == [status |-> "none"]

Init ==
    /\ pc = "import_st"
    /\ ST_MODEL = None
    /\ LT_TOOL = None
    /\ VADER = None
    /\ transcript = ""
    /\ npieces = 0
    /\ call = NoCall
    /\ result = NoResult

\* module import, lines 5-10: the model loads, or the except branch leaves None
LoadSemanticModel ==
    /\ pc = "import_st"
    /\ \/ \E m \in SemModels : ST_MODEL' = m
       \/ ST_MODEL' = None
    /\ pc' = "import_lt"
    /\ UNCHANGED <<LT_TOOL, VADER, transcript, npieces, call, result>>

LoadGrammarTool ==
    /\ pc = "import_lt"
    /\ \/ \E m \in GrammarTools : LT_TOOL' = m
       \/ LT_TOOL' = None
    /\ pc' = "import_vader"
    /\ UNCHANGED <<ST_MODEL, VADER, transcript, npieces, call, result>>

LoadSentimentAnalyzer ==
    /\ pc = "import_vader"
    /\ \/ \E m \in SentimentAnalyzers : VADER' = m
       \/ VADER' = None
    /\ pc' = "ready"
    /\ UNCHANGED <<ST_MODEL, LT_TOOL, transcript, npieces, call, result>>

\* the caller assembles the transcript (pasted text, or extracted files joined)
AppendPiece(p, max) ==
    /\ pc = "ready"
    /\ npieces < max
    /\ transcript' = transcript \o p
    /\ npieces' = npieces + 1
    /\ UNCHANGED <<pc, ST_MODEL, LT_TOOL, VADER, call, result>>

ScoreTranscript(rubric, duration_sec) ==
    /\ pc = "ready"
    /\ call' = [fn |-> "score_transcript", rubric |-> rubric, duration_sec |-> duration_sec]
    /\ result' = score_transcript(transcript, rubric, duration_sec)
    /\ pc' = "returned"
    /\ UNCHANGED <<ST_MODEL, LT_TOOL, VADER, transcript, npieces>>

\* the caller has consumed the result and starts over with a new transcript
NewTranscript ==
    /\ pc = "returned"
    /\ pc' = "ready"
    /\ transcript' = ""
    /\ npieces' = 0
    /\ call' = NoCall
    /\ result' = NoResult
    /\ UNCHANGED <<ST_MODEL, LT_TOOL, VADER>>

Next ==
    \/ LoadSemanticModel
    \/ LoadGrammarTool
    \/ LoadSentimentAnalyzer
    \/ \E p \in Pieces : AppendPiece(p, MaxPieces)
    \/ \E rubric \in Rubrics, d \in Durations : ScoreTranscript(rubric, d)
    \/ NewTranscript

Spec == Init /\ [][Next]_vars

(***************************************************************************)
(* Single scorers called directly, no optional provider installed.         *)
(***************************************************************************)
InitUnit ==
    /\ pc = "ready"
    /\ ST_MODEL = None
    /\ LT_TOOL = None
    /\ VADER = None
    /\ transcript = ""
    /\ npieces = 0
    /\ call = NoCall
    /\ result = NoResult

\* speech_rate_score takes a word count, not a text
CallSpeechRateScore(words, duration_sec) ==
    /\ pc = "ready"
    /\ npieces = 0
    /\ call' = [fn |-> "speech_rate_score", words |-> words, duration_sec |-> duration_sec]
    /\ result' = [status |-> "ok", value |-> speech_rate_score(words, duration_sec)]
    /\ pc' = "returned"
    /\ UNCHANGED <<ST_MODEL, LT_TOOL, VADER, transcript, npieces>>

CallTtrScore ==
    /\ pc = "ready"
    /\ call' = [fn |-> "ttr_score"]
    /\ result' = [status |-> "ok", value |-> ttr_score(transcript)]
    /\ pc' = "returned"
    /\ UNCHANGED <<ST_MODEL, LT_TOOL, VADER, transcript, npieces>>

CallFillerRateScore ==
    /\ pc = "ready"
    /\ call' = [fn |-> "filler_rate_score"]
    /\ result' = [status |-> "ok", value |-> filler_rate_score(transcript)]
    /\ pc' = "returned"
    /\ UNCHANGED <<ST_MODEL, LT_TOOL, VADER, transcript, npieces>>

CallDetectSalutation ==
    /\ pc = "ready"
    /\ call' = [fn |-> "detect_salutation"]
    /\ result' = [status |-> "ok", value |-> detect_salutation(transcript)]
    /\ pc' = "returned"
    /\ UNCHANGED <<ST_MODEL, LT_TOOL, VADER, transcript, npieces>>

CallDetectFlow ==
    /\ pc = "ready"
    /\ call' = [fn |-> "detect_flow"]
    /\ result' = [status |-> "ok", value |-> detect_flow(transcript)]
    /\ pc' = "returned"
    /\ UNCHANGED <<ST_MODEL, LT_TOOL, VADER, transcript, npieces>>

CallScoreContentStructure(text) ==
    /\ pc = "ready"
    /\ npieces = 0
    /\ call' = [fn |-> "score_content_structure", text |-> text]
    /\ result' = [status |-> "ok", value |-> score_content_structure(text)]
    /\ pc' = "returned"
    /\ UNCHANGED <<ST_MODEL, LT_TOOL, VADER, transcript, npieces>>

CallGrammarScore(text) ==
    /\ pc = "ready"
    /\ npieces = 0
    /\ call' = [fn |-> "grammar_score", text |-> text]
    /\ result' = [status |-> "ok", value |-> grammar_score(text)]
    /\ pc' = "returned"
    /\ UNCHANGED <<ST_MODEL, LT_TOOL, VADER, transcript, npieces>>

NextUnit ==
    \/ \E p \in UnitPieces : AppendPiece(p, MaxUnitPieces)
    \/ \E words \in 0..MaxWords, d \in UnitDurations : CallSpeechRateScore(words, d)
    \/ CallTtrScore
    \/ CallFillerRateScore
    \/ CallDetectSalutation
    \/ CallDetectFlow
    \/ \E text \in GrammarTexts : CallGrammarScore(text)
    \/ \E text \in ContentTexts : CallScoreContentStructure(text)
    \/ NewTranscript

SpecUnit == InitUnit /\ [][NextUnit]_vars

(***************************************************************************)
(* score_transcript without rubric and without optional provider, in       *)
(* binary64 arithmetic.                                                    *)
(***************************************************************************)
ScoreTranscriptF64(duration_sec) ==
    /\ pc = "ready"
    /\ call' = [fn |-> "score_transcript", rubric |-> NoRubric, duration_sec |-> duration_sec]
    /\ result' = score_transcript_f64(transcript, duration_sec)
    /\ pc' = "returned"
    /\ UNCHANGED <<ST_MODEL, LT_TOOL, VADER, transcript, npieces>>

NextFloat ==
    \/ \E p \in FloatPieces : AppendPiece(p, MaxFloatPieces)
    \/ \E d \in FloatDurations : ScoreTranscriptF64(d)
    \/ NewTranscript

SpecFloat == InitUnit /\ [][NextFloat]_vars

(***************************************************************************)
(* Properties.                                                             *)
(***************************************************************************)
\* score_transcript was called and returned a report
IsReport == call.fn = "score_transcript" /\ result.status = "ok"

Entries == result.per_criterion
EntryIds == 1..Len(result.per_criterion)

\* the sum of the weighted_contribution fields of the report
ContributionSum == RSum([i \in EntryIds |-> Entries[i].weighted_contribution])

InZeroToHundred(x) == RLe(R(0), x) /\ RLe(x, R(100))

\* C1: overall_score is the sum of the entries' weighted contributions clamped
\* to [0,100], each contribution being (combined_score/100) * (weight*100), so
\* that 0 <= overall_score <= 100, whatever the transcript, duration and rubric.
C1_OverallIsClampedSum ==
    IsReport =>
        /\ \A i \in EntryIds :
              Entries[i].weighted_contribution =
                  RMul(RDiv(Entries[i].combined_score, R(100)),
                       RMul(Entries[i].weight, R(100)))
        /\ result.overall_score =
              (IF RLt(ContributionSum, R(0)) THEN R(0)
               ELSE IF RLt(R(100), ContributionSum) THEN R(100)
               ELSE ContributionSum)
        /\ InZeroToHundred(result.overall_score)

\* a report whose contributions sum above 100 (weights summing above 1)
C1_Witness ==
    /\ IsReport
    /\ RLt(R(100), ContributionSum)
    /\ result.overall_score = R(100)

\* C2: every entry's combined_score lies in [0,100] and is
\* 0.5*rule_score + 0.5*semantic_score; without a semantic provider every
\* semantic_score is 0 and combined_score is half the rule_score.
C2_CombinedIsEqualFusion ==
    IsReport =>
        \A i \in EntryIds :
            /\ InZeroToHundred(Entries[i].combined_score)
            /\ RAdd(Entries[i].combined_score, Entries[i].combined_score) =
                   RAdd(Entries[i].rule_score, Entries[i].semantic_score)
            /\ ~ST_MODEL.loaded =>
                   /\ Entries[i].semantic_score = R(0)
                   /\ RAdd(Entries[i].combined_score, Entries[i].combined_score) =
                          Entries[i].rule_score

\* a report with a loaded semantic model: an entry whose rule and semantic
\* scores are both 100, and one whose semantic score is 0 with a rule score above
C2_Witness ==
    /\ IsReport
    /\ ST_MODEL.loaded
    /\ \E i \in EntryIds :
          Entries[i].rule_score = R(100) /\ Entries[i].semantic_score = R(100)
    /\ \E i \in EntryIds :
          RLt(R(0), Entries[i].rule_score) /\ Entries[i].semantic_score = R(0)

\* the points the grammar scorer gave: the merged entry's raw_points are the
\* grammar points plus the vocabulary points
GrammarPoints == RSub(Entries[3].raw_points, Entries[4].raw_points)

\* a provider that failed: it did not load, or its call raises
SemanticFailed ==
    ~ST_MODEL.loaded \/ \E b \in RefStrings : ST_MODEL.cos_sim[b].raises
GrammarFailed == ~LT_TOOL.loaded \/ LT_TOOL.check.raises
SentimentFailed == ~VADER.loaded \/ VADER.polarity_scores.raises

\* the grammar points of the repeated-word/comma heuristic
HeuristicGrammarPoints(text) ==
    GrammarBand(RSub(R(1), RMin(RDiv(
        RDiv(R(HeuristicErrors(text)), RDiv(R(AtLeastOne(word_count(text))), R(100))),
        R(10)), R(1))))

\* C3: no failure of an optional provider is fatal: every score_transcript call
\* returns a report, with semantic_score 0 for a failed semantic provider, the
\* repeated-word/comma heuristic for a failed grammar tool and the positive-word
\* ratio for a failed sentiment analyzer.
C3_ProviderFailureNeverFatal ==
    call.fn = "score_transcript" =>
        /\ result.status = "ok"
        /\ SemanticFailed => \A i \in EntryIds : Entries[i].semantic_score = R(0)
        /\ GrammarFailed => GrammarPoints = HeuristicGrammarPoints(transcript)
        /\ SentimentFailed =>
              Entries[6].raw_points = EngagementBand(PositiveRatio(tokenize_words(transcript)))

\* C4: for a transcript without tokens score_transcript returns a report with
\* words = 0 in which the ratio-based scorers report raw_points = 0: vocabulary,
\* clarity and the fallback (positive-word ratio) engagement scorer.
C4_ZeroTokensScoreZero ==
    (call.fn = "score_transcript" /\ word_count(transcript) = 0 /\ ~ProviderRaises(transcript)) =>
        /\ result.status = "ok"
        /\ result.words = 0
        /\ Entries[4].raw_points = R(0)
        /\ Entries[5].raw_points = R(0)
        /\ ~VADER.loaded => Entries[6].raw_points = R(0)

\* the rubric entries whose criterion name equals entry i's, ignoring case
MatchingRubricEntries(i) ==
    {j \in 1..Len(call.rubric.entries) :
        Lower(call.rubric.entries[j].criterion) = Lower(Entries[i].criterion)}

\* entry i carries the weight the rubric gives its criterion, 0 if it gives none
WeightIsFromRubric(i) ==
    IF MatchingRubricEntries(i) = {}
    THEN Entries[i].weight = R(0)
    ELSE \E j \in MatchingRubricEntries(i) :
            Entries[i].weight = call.rubric.entries[j].weight

\* the weight the built-in table gives a criterion: max_points / sum of max_points
BuiltInWeight(criterion) ==
    RDiv(CRITERION_POINTS[criterion],
         RSum([k \in 1..Len(CRITERION_NAMES) |-> CRITERION_POINTS[CRITERION_NAMES[k]]]))

\* overall_score is made of the six entries only
OverallFromEntries ==
    result.overall_score =
        RMax(R(0), RMin(R(100),
            RSum([i \in EntryIds |-> RMul(Entries[i].combined_score, Entries[i].weight)])))

\* C5 as stated: whenever a rubric table is supplied, each entry's weight is the
\* weight of the rubric entry of the same name (ignoring case), 0 if there is
\* none; built-in weights are never used and other rubric entries add nothing.
C5_SuppliedRubricDecidesWeights ==
    (IsReport /\ call.rubric.given) =>
        /\ \A i \in EntryIds : WeightIsFromRubric(i)
        /\ OverallFromEntries

\* C5 amended: the same for a supplied rubric table that is not empty; an empty
\* table is treated like an absent one and the built-in weights are used.
C5_NonEmptyRubricDecidesWeights ==
    (IsReport /\ call.rubric.given) =>
        /\ call.rubric.entries # <<>> => \A i \in EntryIds : WeightIsFromRubric(i)
        /\ call.rubric.entries = <<>> =>
              \A i \in EntryIds : Entries[i].weight = BuiltInWeight(Entries[i].criterion)
        /\ OverallFromEntries

\* a report under the hand-made rubric: an upper-case name matched, a name
\* given twice, and a criterion the rubric does not name
C5_Witness ==
    /\ IsReport
    /\ call.rubric = HandMadeRubric
    /\ Entries[1].weight = Rat(3, 2)
    /\ Entries[5].weight = Rat(4, 5)
    /\ Entries[6].weight = R(0)
    /\ RLt(R(0), Entries[6].combined_score)

\* C6: without a rubric each entry's weight is its criterion's max_points over
\* the sum of the six max_points, and the six weights sum to 1.
C6_DefaultWeightsSumToOne ==
    (IsReport /\ ~call.rubric.given) =>
        /\ \A i \in EntryIds : Entries[i].weight = BuiltInWeight(Entries[i].criterion)
        /\ RSum([i \in EntryIds |-> Entries[i].weight]) = R(1)

\* a report without rubric: Content & Structure weighs 40/110
C6_Witness ==
    /\ IsReport
    /\ ~call.rubric.given
    /\ Entries[1].weight = Rat(40, 110)
    /\ Entries[3].weight = Rat(20, 110)

\* entry 3 averages the grammar and the vocabulary scorer, entry 4 is the
\* vocabulary scorer's own result
MergedIsAverage(lg, vr) ==
    /\ RAdd(Entries[3].rule_score, Entries[3].rule_score) =
           RAdd(lg.rule_score, vr.rule_score)
    /\ RAdd(Entries[3].semantic_score, Entries[3].semantic_score) =
           RAdd(lg.semantic_score, vr.semantic_score)
    /\ RAdd(Entries[3].combined_score, Entries[3].combined_score) =
           RAdd(lg.combined_score, vr.combined_score)
    /\ Entries[4].rule_score = vr.rule_score
    /\ Entries[4].semantic_score = vr.semantic_score
    /\ Entries[4].combined_score = vr.combined_score

\* C7: a report has exactly six entries, in the order Content & Structure,
\* Speech Rate, Language & Grammar, Vocabulary Richness, Clarity, Engagement; the
\* Language & Grammar entry's three scores are the plain averages of the grammar
\* scorer's and the vocabulary scorer's, and the Vocabulary Richness entry
\* repeats the vocabulary scorer's own scores.
C7_SixEntriesMergedAverage ==
    IsReport =>
        /\ [i \in EntryIds |-> Entries[i].criterion] = CRITERION_NAMES
        /\ MergedIsAverage(score_language_grammar(transcript), score_vocabulary(transcript))

DiffersFrom(lg, vr) ==
    lg.rule_score # vr.rule_score /\ lg.semantic_score # vr.semantic_score

\* a report where the grammar and the vocabulary scorer disagree on both scores
C7_Witness ==
    /\ IsReport
    /\ DiffersFrom(score_language_grammar(transcript), score_vocabulary(transcript))

\* the claimed banding of speech_rate_score for words-per-minute wpm
ClaimedSpeechBands(wpm, points) ==
    /\ RLt(R(161), wpm) => points = R(2)
    /\ (RLe(R(141), wpm) /\ RLe(wpm, R(160))) => points = R(6)
    /\ (RLe(R(111), wpm) /\ RLe(wpm, R(140))) => points = R(10)
    /\ (RLe(R(81), wpm) /\ RLe(wpm, R(110))) => points = R(6)
    /\ (points = R(2) /\ ~RLt(R(161), wpm)) => RLe(wpm, R(80))

\* C8: for a positive duration speech_rate_score bands wpm = words/(duration/60)
\* as >161 -> 2, [141,160] -> 6, [111,140] -> 10, [81,110] -> 6, and gives the
\* remaining 2 points only when wpm <= 80.
C8_SpeechRateBands ==
    (call.fn = "speech_rate_score" /\ ~DurationUnusable(call.duration_sec)) =>
        ClaimedSpeechBands(
            RDiv(RMul(R(call.words), R(60)), call.duration_sec.value), result.value)

\* the claimed banding of filler_rate_score for count filler hits in total tokens
ClaimedFillerBands(count, total, points) ==
    /\ 100 * count <= 3 * total => points = R(15)
    /\ (4 * total <= 100 * count /\ 100 * count <= 6 * total) => points = R(12)
    /\ (7 * total <= 100 * count /\ 100 * count <= 9 * total) => points = R(9)
    /\ (10 * total <= 100 * count /\ 100 * count <= 12 * total) => points = R(6)
    /\ points = R(3) => 100 * count > 12 * total
    /\ points \in {R(15), R(12), R(9), R(6), R(3)}

\* C9: for a transcript with at least one token filler_rate_score bands
\* rate = 100 * filler hits / tokens as <=3 -> 15, [4,6] -> 12, [7,9] -> 9,
\* [10,12] -> 6, and gives 3 points only when rate > 12.
C9_FillerRateBands ==
    (call.fn = "filler_rate_score" /\ word_count(transcript) >= 1) =>
        ClaimedFillerBands(FillerCount(transcript), word_count(transcript), result.value)

\* the claimed banding of ttr_score for distinct distinct tokens among total
ClaimedTtrBand(distinct, total) ==
    IF 10 * distinct >= 9 * total THEN R(10)
    ELSE IF 10 * distinct >= 7 * total THEN R(8)
    ELSE IF 10 * distinct >= 5 * total THEN R(6)
    ELSE IF 10 * distinct >= 3 * total THEN R(4)
    ELSE R(2)

TtrClaimHolds(words) ==
    result.value = ClaimedTtrBand(Cardinality(SeqToSet(words)), Len(words))

\* C10: for a transcript with at least one token ttr_score bands
\* TTR = distinct tokens / tokens as [0.9,1] -> 10, [0.7,0.9) -> 8,
\* [0.5,0.7) -> 6, [0.3,0.5) -> 4, below 0.3 -> 2; ten copies of one word give 2
\* points and ten distinct words give 10.
C10_TtrBands ==
    (call.fn = "ttr_score" /\ word_count(transcript) >= 1) =>
        TtrClaimHolds(tokenize_words(transcript))

\* ttr_score has answered 2 for ten copies of one word
C10_Witness ==
    /\ call.fn = "ttr_score"
    /\ transcript = "a a a a a a a a a a "
    /\ result.value = R(2)

\* some phrase of the level occurs in the lower-cased text t
LevelOccurs(level, t) ==
    \E p \in SeqToSet(SALUTATION_PHRASES[level]) : Contains(t, p)

\* the strongest level with a phrase in t and its points
StrongestSalutation(t) ==
    IF LevelOccurs("excellent", t) THEN [level |-> "excellent", score |-> 5]
    ELSE IF LevelOccurs("good", t) THEN [level |-> "good", score |-> 4]
    ELSE IF LevelOccurs("normal", t) THEN [level |-> "normal", score |-> 2]
    ELSE [level |-> "no salulation", score |-> 0]

\* C11: detect_salutation answers the strongest level a phrase of which occurs
\* anywhere in the lower-cased text (excellent 5 > good 4 > normal 2), and the
\* no-salutation level with 0 points exactly when no phrase occurs, wherever
\* the phrases stand; "Good morning, my name is Alex" is level good with 4
\* points, and detect_flow answers true for it.
C11_StrongestSalutationWins ==
    /\ call.fn = "detect_salutation" =>
          /\ result.value = StrongestSalutation(Lower(transcript))
          /\ transcript = "Good morning, my name is Alex. " =>
                result.value = [level |-> "good", score |-> 4]
    /\ (call.fn = "detect_flow" /\ transcript = "Good morning, my name is Alex. ") =>
          result.value = TRUE

\* detect_salutation has answered excellent for a text that opens with a
\* normal greeting and goes on with an excellent one
C11_Witness ==
    /\ call.fn = "detect_salutation"
    /\ transcript = "Hi I am excited "
    /\ result.value = [level |-> "excellent", score |-> 5]

\* 4 points per must-have match and 2 per good-to-have match, five matches at most
MustPart(kw) == 4 * (IF kw.must > 5 THEN 5 ELSE kw.must)
GoodPart(kw) == 2 * (IF kw.good > 5 THEN 5 ELSE kw.good)

\* the four components of the content score add up to the scorer's raw_points
ContentIsSumOfParts(res, sal, kw, flow) ==
    /\ sal.score \in {0, 2, 4, 5}
    /\ MustPart(kw) <= 20
    /\ GoodPart(kw) <= 10
    /\ res.raw_points = R(sal.score + MustPart(kw) + GoodPart(kw) + (IF flow THEN 5 ELSE 0))
    /\ RLe(R(0), res.raw_points) /\ RLe(res.raw_points, R(40))
    /\ res.rule_score = RMul(RDiv(res.raw_points, R(40)), R(100))
    /\ RLe(R(0), res.rule_score) /\ RLe(res.rule_score, R(100))

\* C12: score_content_structure returns raw_points = salutation points (0, 2, 4
\* or 5) + 4 * min(5, must-have matches) + 2 * min(5, good-to-have matches) + 5
\* if flow is detected; the must-have part stays within 20 and the good-to-have
\* part within 10, raw_points within [0,40] and rule_score = raw_points/40*100
\* within [0,100].
C12_ContentRawPoints ==
    call.fn = "score_content_structure" =>
        ContentIsSumOfParts(result.value, detect_salutation(call.text),
                            count_must_good_keywords(call.text), detect_flow(call.text))

\* a text with more than five keywords of each kind has scored 40 points
C12_Witness ==
    /\ call.fn = "score_content_structure"
    /\ result.value.details.must > 5
    /\ result.value.details.good > 5
    /\ result.value.raw_points = R(40)

\* C13: without a usable duration (None, 0 or negative) the duration
\* speech_rate_score synthesizes corresponds to 120 words per minute, so wpm is
\* 120 and the award is 10 points, for every count of at least one word.
C13_SynthesizedDurationGivesTen ==
    (call.fn = "speech_rate_score" /\ DurationUnusable(call.duration_sec)
        /\ call.words >= 1) =>
        /\ WordsPerMinute(call.words, call.duration_sec) = R(120)
        /\ result.value = R(10)

\* errors per 100 words on the path without grammar tool
ErrorDensity(text) ==
    RDiv(R(100 * HeuristicErrors(text)), R(IF word_count(text) < 1 THEN 1 ELSE word_count(text)))

\* C14: without grammar tool grammar_score is monotone in the error density:
\* a text whose errors per 100 words are at most another text's receives at
\* least as many points as the other.
C14_GrammarFallbackMonotone ==
    (call.fn = "grammar_score" /\ ~LT_TOOL.loaded) =>
        \A other \in GrammarTexts :
            RLe(ErrorDensity(call.text), ErrorDensity(other)) =>
                RLe(grammar_score(other), result.value)

Fifty64 == F64(50)

\* without rubric and semantic model no criterion has a combined_score above
\* 50, and the clamp to 100 does not cut the sum of the contributions
HalfPerCriterion ==
    /\ \A i \in EntryIds : F64Le(Entries[i].combined_score, Fifty64)
    /\ F64Le(SumContributionsF64(Entries), Hundred64)
    /\ result.overall_score = SumContributionsF64(Entries)

====
